---- MODULE Spec2Model ----
(***************************************************************************)
(* Recipe catalog API (Express + MongoDB): the recipe write path           *)
(* (POST/PUT/DELETE /recipes, POST /ai/recipes), the verifyToken           *)
(* middleware in front of GET /protected, and registration / login.        *)
(***************************************************************************)
EXTENDS FiniteSets, Integers, Sequences, TLC

\* ------------------------------------------------------------------ bounds
\* ObjectIds the recipes collection may hand out (inserts stop after that).
MaxRecipes == 1
\* Longest list of tag names a request (or the generator) carries.
MaxTags == 2
\* Longest authorization header value, in characters.
MaxHeaderLen == 5
\* User documents the users collection may hold (registrations stop after that).
MaxUsers == 2

\* Longest tags / ingredients query parameter of GET /recipes, in characters.
MaxQueryLen == 3
\* Recipe documents in the collection a search runs against.
MaxCatalog == 1
\* Calls of connect(uri, dbname) in one process.
MaxCallers == 4

\* ------------------------------------------------------- fixed collections
\* JS undefined: a body field that was not sent (or is falsy).
Missing == "undefined"

\* findOne() result when no document matches (JS null).
NoDoc == [_id |-> "null", name |-> "null"]

\* The Cuisine collection, held fixed: documents with _id and unique name.
Cuisines == { [_id |-> "c1", name |-> "Thai"], [_id |-> "c2", name |-> "Malay"] }

\* The Tag collection, held fixed, in the order find() returns documents.
Tags == << [_id |-> "t1", name |-> "quick"], [_id |-> "t2", name |-> "spicy"] >>

\* Cuisine names a request may carry: the known ones and one unknown.
CuisineNames == {"Thai", "Malay", "French"}

\* Tag names a request may carry: the known ones and one unknown.
TagNames == {"quick", "spicy", "ghost"}

\* The five fields the handlers require.
Required == {"name", "cuisine", "ingredients", "instructions", "tags"}

\* The three fields the handlers destructure but never test.
Optional == {"prepTime", "cookTime", "servings"}

Range(s) == { s[i] : i \in DOMAIN s }

\* A malformed :id path parameter (new ObjectId(id) throws); well-formed ids
\* are the positive numbers.
Malformed == 0

\* ------------------------------------------------------------ request data
\* Lists of at most MaxTags tag names (duplicates and unknown names allowed).
TagLists == UNION { [1..n -> TagNames] : n \in 0..MaxTags }

\* Which required fields a body leaves out: none, any single one, or all.
MissingSets == {{}} \cup { {f} : f \in Required } \cup {Required}

\* Which optional fields a body supplies.
OptionalSets == {{}, Optional}

\* A request body (req.body). A field in `missing` is undefined; name,
\* ingredients and instructions carry one fixed value when present.
Bodies ==
    { b \in [missing : MissingSets, cuisine : CuisineNames \cup {Missing},
             tags : TagLists, optional : OptionalSets] :
        /\ ("cuisine" \in b.missing) <=> (b.cuisine = Missing)
        /\ ("tags" \in b.missing) => (b.tags = << >>) }

\* What generateRecipe returns: a recipe with a cuisine name and tag names.
Generated ==
    [missing : {{}}, cuisine : CuisineNames, tags : TagLists, optional : {Optional}]

\* The body recorded for a request that has none (DELETE).
NoBody == [missing |-> {}, cuisine |-> Missing, tags |-> << >>, optional |-> {}]

\* :id values a request may carry: malformed, issued, or never issued.
RecipeIds == {Malformed} \cup (1..(MaxRecipes + 1))

BodyName(b) == IF "name" \in b.missing THEN Missing ELSE "Soup"
BodyIngredients(b) == IF "ingredients" \in b.missing THEN << >> ELSE << "rice" >>
BodyInstructions(b) == IF "instructions" \in b.missing THEN << >> ELSE << "boil" >>

\* res.status(s).json({key: text, ...}); id is the recipeId sent, if any.
Response(s, k, t, i) == [status |-> s, key |-> k, text |-> t, id |-> i]

\* No response has been sent.
NoResponse == Response(0, "none", "none", 0)

\* ------------------------------------------------------- database helpers
\* A findOne whose filter is lost ({ name: undefined } dropped): any document.
findOneAny(coll, nm) == CHOOSE d \in coll : TRUE

\* db.collection('cuisines').findOne({ name }).
findOne(coll, nm) ==
    IF \E d \in coll : d.name = nm
    THEN CHOOSE d \in coll : d.name = nm
    ELSE NoDoc

\* Tag snapshots built from the requested names without a lookup.
findUnchecked(coll, names) == [i \in DOMAIN names |-> [_id |-> "t1", name |-> names[i]]]

\* db.collection('tags').find({ name: { $in: names } }).toArray(): every
\* document whose name is listed, once each, in collection order.
find(coll, names) == SelectSeq(coll, LAMBDA d : d.name \in Range(names))

\* The { _id, name } snapshot the handlers embed.
snapshot(d) == [_id |-> d._id, name |-> d.name]

\* tagDocs.map(tag => ({ _id: tag._id, name: tag.name })).
snapshots(docs) == [i \in DOMAIN docs |-> snapshot(docs[i])]

\* insertOne: the document stored under a fresh _id.
insertOne(store, id, doc) == store @@ (id :> doc)

\* deleteOne({ _id }): removes the document with that id, if any.
deleteOne(store, id) == [i \in (DOMAIN store) \ {id} |-> store[i]]

\* The recipe object create and update build from the body.
recipeDoc(b, cuisineDoc, tagDocs) ==
    [name |-> BodyName(b),
     cuisine |-> snapshot(cuisineDoc),
     optional |-> b.optional,
     ingredients |-> BodyIngredients(b),
     instructions |-> BodyInstructions(b),
     tags |-> snapshots(tagDocs)]

\* Basic validation that forgets !tags.
missingRequiredButTags(b) == b.missing \ {"tags"} # {}

\* "Basic validation": !name || !cuisine || !ingredients || !instructions || !tags.
missingRequired(b) == b.missing # {}

\* A tag check that rejects only when no tag at all was found.
invalidTagsNoneFound(tagDocs, tags) == Len(tagDocs) = 0 /\ Len(tags) > 0

\* tagDocs.length !== tags.length.
invalidTags(tagDocs, tags) == Len(tagDocs) # Len(tags)

\* ---------------------------------------------------------------- handlers
\* app.post('/recipes'): the collection and the response it leaves.
postRecipes(store, newId, b) ==
    IF missingRequired(b)
    THEN [recipes |-> store,
          resp |-> Response(400, "error", "Missing required fields", 0)]
    ELSE LET cuisineDoc == findOne(Cuisines, b.cuisine) IN
         IF cuisineDoc = NoDoc
         THEN [recipes |-> store,
               resp |-> Response(400, "error", "Invalid cuisine", 0)]
         ELSE LET tagDocs == find(Tags, b.tags) IN
              IF invalidTags(tagDocs, b.tags)
              THEN [recipes |-> store,
                    resp |-> Response(400, "error", "One or more invalid tags", 0)]
              ELSE [recipes |-> insertOne(store, newId, recipeDoc(b, cuisineDoc, tagDocs)),
                    resp |-> Response(201, "message", "Recipe created successfully", newId)]

\* updateOne with { upsert: true }.
updateOneUpsert(store, id, doc) ==
    IF id \in DOMAIN store THEN [store EXCEPT ![id] = doc] ELSE store @@ (id :> doc)

\* updateOne({ _id }, { $set: updatedRecipe }): no upsert.
updateOne(store, id, doc) ==
    IF id \in DOMAIN store THEN [store EXCEPT ![id] = doc] ELSE store

\* result.matchedCount of that updateOne.
matchedCount(store, id) == IF id \in DOMAIN store THEN 1 ELSE 0

\* app.put('/recipes/:id').
putRecipes(store, id, b) ==
    IF missingRequired(b)
    THEN [recipes |-> store,
          resp |-> Response(400, "error", "Missing required fields", 0)]
    ELSE LET cuisineDoc == findOne(Cuisines, b.cuisine) IN
         IF cuisineDoc = NoDoc
         THEN [recipes |-> store,
               resp |-> Response(400, "error", "Invalid cuisine", 0)]
         ELSE LET tagDocs == find(Tags, b.tags) IN
              IF invalidTags(tagDocs, b.tags)
              THEN [recipes |-> store,
                    resp |-> Response(400, "error", "One or more invalid tags", 0)]
              ELSE IF id = Malformed
              THEN [recipes |-> store,
                    resp |-> Response(500, "error", "Internal server error", 0)]
              ELSE IF matchedCount(store, id) = 0
              THEN [recipes |-> updateOne(store, id, recipeDoc(b, cuisineDoc, tagDocs)),
                    resp |-> Response(404, "error", "Recipe not found", 0)]
              ELSE [recipes |-> updateOne(store, id, recipeDoc(b, cuisineDoc, tagDocs)),
                    resp |-> Response(200, "message", "Recipe updated successfully", 0)]

\* A delete that answers 404 when deletedCount is 0.
deleteRecipesNotFound(store, id) ==
    IF id = Malformed
    THEN [recipes |-> store,
          resp |-> Response(500, "error", "Internal server error", 0)]
    ELSE IF id \notin DOMAIN store
    THEN [recipes |-> store,
          resp |-> Response(404, "error", "Recipe not found", 0)]
    ELSE [recipes |-> [i \in (DOMAIN store) \ {id} |-> store[i]],
          resp |-> Response(200, "message", "Recipe deleted successfully", 0)]

\* app.delete('/recipes/:id').
deleteRecipes(store, id) ==
    IF id = Malformed
    THEN [recipes |-> store,
          resp |-> Response(500, "error", "Internal server error", 0)]
    ELSE [recipes |-> deleteOne(store, id),
          resp |-> Response(200, "message", "Recipe deleted successfully", 0)]

\* An AI route that stores the generated cuisine name as it came when the
\* lookup finds nothing.
postAiRecipesUnresolved(store, newId, g) ==
    LET cuisineDoc == findOne(Cuisines, g.cuisine)
        tagDocs == find(Tags, g.tags)
    IN [recipes |-> insertOne(store, newId,
                        [name |-> BodyName(g),
                         cuisine |-> IF cuisineDoc = NoDoc
                                     THEN [_id |-> "null", name |-> g.cuisine]
                                     ELSE cuisineDoc,
                         optional |-> g.optional,
                         ingredients |-> BodyIngredients(g),
                         instructions |-> BodyInstructions(g),
                         tags |-> tagDocs]),
        resp |-> Response(200, "recipeId", "recipeId", newId)]

\* app.post('/ai/recipes'), g being what generateRecipe returned: the
\* cuisine must resolve, unresolved tag names are dropped.
postAiRecipes(store, newId, g) ==
    LET cuisineDoc == findOne(Cuisines, g.cuisine) IN
    IF cuisineDoc = NoDoc
    THEN [recipes |-> store,
          resp |-> Response(404, "error", "AI tried to use a cuisine that doesn't exist", 0)]
    ELSE LET tagDocs == find(Tags, g.tags) IN
         [recipes |-> insertOne(store, newId,
                         [name |-> BodyName(g),
                          cuisine |-> cuisineDoc,
                          optional |-> g.optional,
                          ingredients |-> BodyIngredients(g),
                          instructions |-> BodyInstructions(g),
                          tags |-> tagDocs]),
          resp |-> Response(200, "recipeId", "recipeId", newId)]

\* --------------------------------------------------------- auth middleware
\* Characters of an authorization header value: a scheme letter, the one
\* character of a token that verifies, the one of an expired token, a space.
Chars == {"B", "g", "e", " "}

\* Header values: absent (undefined), or a string of at most MaxHeaderLen
\* characters; the HTTP parser has stripped leading and trailing spaces.
Headers ==
    {[present |-> FALSE, value |-> << >>]}
        \cup { [present |-> TRUE, value |-> v] :
                 v \in { w \in UNION { [1..n -> Chars] : n \in 0..MaxHeaderLen } :
                           w = << >> \/ (w[1] # " " /\ w[Len(w)] # " ") } }

\* The claims jwt.sign put into a token ({ user_id, email }).
Claims(id, email) == [user_id |-> id, email |-> email]
NoClaims == Claims(0, "none")

\* The token signed with TOKEN_SECRET that has not expired, and the one that has.
GoodToken == << "g" >>
ExpiredToken == << "e" >>

\* jwt.verify(token, TOKEN_SECRET) returns the claims instead of throwing.
jwtVerifies(token) == token = GoodToken

\* What jwt.verify returns for a token that verifies.
jwtClaims(token) == Claims(1, "a@x")

\* String.prototype.split(' '): the pieces between single spaces.
RECURSIVE split(_)
split(str) ==
    IF \A i \in DOMAIN str : str[i] # " "
    THEN << str >>
    ELSE LET i == CHOOSE k \in DOMAIN str :
                      /\ str[k] = " "
                      /\ \A j \in 1..(k - 1) : str[j] # " "
         IN << SubSeq(str, 1, i - 1) >> \o split(SubSeq(str, i + 1, Len(str)))

\* const token = parts.length === 2 ? parts[1] : parts[0].
extractToken(parts) == IF Len(parts) = 2 THEN parts[2] ELSE parts[1]

\* No call of jwt.verify was made.
NotVerified == [called |-> FALSE, token |-> << >>]

\* A verifyToken whose catch block answers 401 and calls next() all the same.
verifyTokenFailOpen(h) ==
    IF ~h.present \/ h.value = << >>
    THEN [jwt |-> NotVerified, tokenData |-> NoClaims, next |-> 0,
          sent |-> << Response(401, "error", "Missing token", 0) >>]
    ELSE LET parts == split(h.value)
             token == extractToken(parts)
         IN IF jwtVerifies(token)
            THEN [jwt |-> [called |-> TRUE, token |-> token],
                  tokenData |-> jwtClaims(token), next |-> 1, sent |-> << >>]
            ELSE [jwt |-> [called |-> TRUE, token |-> token],
                  tokenData |-> NoClaims, next |-> 1,
                  sent |-> << Response(401, "error", "Invalid token", 0) >>]

\* A verifyToken that answers a token that fails verification with 403.
verifyTokenForbidden(h) ==
    IF ~h.present \/ h.value = << >>
    THEN [jwt |-> NotVerified, tokenData |-> NoClaims, next |-> 0,
          sent |-> << Response(401, "error", "Missing token", 0) >>]
    ELSE LET parts == split(h.value)
             token == extractToken(parts)
         IN IF jwtVerifies(token)
            THEN [jwt |-> [called |-> TRUE, token |-> token],
                  tokenData |-> jwtClaims(token), next |-> 1, sent |-> << >>]
            ELSE [jwt |-> [called |-> TRUE, token |-> token],
                  tokenData |-> NoClaims, next |-> 0,
                  sent |-> << Response(403, "error", "Invalid token", 0) >>]

\* verifyToken(req, res, next): the token handed to jwt.verify, req.tokenData,
\* the number of next() calls and the responses the middleware sent.
verifyToken(h) ==
    IF ~h.present \/ h.value = << >>
    THEN [jwt |-> NotVerified, tokenData |-> NoClaims, next |-> 0,
          sent |-> << Response(401, "error", "Missing token", 0) >>]
    ELSE LET parts == split(h.value)
             token == extractToken(parts)
         IN IF jwtVerifies(token)
            THEN [jwt |-> [called |-> TRUE, token |-> token],
                  tokenData |-> jwtClaims(token), next |-> 1, sent |-> << >>]
            ELSE [jwt |-> [called |-> TRUE, token |-> token],
                  tokenData |-> NoClaims, next |-> 0,
                  sent |-> << Response(401, "error", "Invalid token", 0) >>]

\* app.get('/protected', verifyToken, handler): the handler runs once per
\* next() call and answers with the secret message and req.tokenData.
getProtected(h) ==
    LET m == verifyToken(h) IN
    [op |-> "GET /protected", header |-> h, jwt |-> m.jwt, tokenData |-> m.tokenData, next |-> m.next,
     handlerRuns |-> m.next,
     sent |-> IF m.next > 0
              THEN m.sent \o << Response(200, "message", "This is a secret message", 0) >>
              ELSE m.sent]

\* ------------------------------------------------------ registration, login
Emails == {"a@x", "b@x"}
Passwords == {"pw1", "pw2"}

\* bcrypt.hash(password, 12).
hash(pw) == << "$2a$12$", pw >>

\* bcrypt.compare(password, hashed).
compare(pw, hashed) == hashed = hash(pw)

\* generateAccessToken(id, email): jwt.sign over { user_id, email }, 1 h.
generateAccessToken(id, email) == [claims |-> Claims(id, email), expiresIn |-> "1h"]
NoToken == [claims |-> NoClaims, expiresIn |-> "none"]

\* A response of the user routes; accessToken is NoToken when none is sent.
UserResponse(s, k, t, tok) == [status |-> s, key |-> k, text |-> t, accessToken |-> tok]
NoUserResponse == UserResponse(0, "none", "none", NoToken)

NoUser == [_id |-> 0, email |-> "none", password |-> << >>]

\* db.collection("users").findOne({ email }): the first match in natural order.
findUser(coll, email) ==
    IF \E i \in DOMAIN coll : coll[i].email = email
    THEN coll[CHOOSE i \in DOMAIN coll :
                 /\ coll[i].email = email
                 /\ \A j \in 1..(i - 1) : coll[j].email # email]
    ELSE NoUser

\* app.post('/users'): bcrypt.hash rejects a password that is not a string,
\* and the handler then neither inserts nor answers.
postUsers(coll, email, pw) ==
    IF pw = Missing
    THEN [users |-> coll, resp |-> NoUserResponse]
    ELSE [users |-> Append(coll, [_id |-> Len(coll) + 1, email |-> email,
                                  password |-> hash(pw)]),
          resp |-> UserResponse(200, "message", "User created successfully", NoToken)]

\* A login that tells an unknown email apart ('User not found', 404).
postLoginUserNotFound(coll, email, pw) ==
    LET user == findUser(coll, email) IN
    IF user # NoUser
    THEN IF pw = Missing
         THEN NoUserResponse
         ELSE IF compare(pw, user.password)
              THEN UserResponse(200, "accessToken", "accessToken",
                                generateAccessToken(user._id, user.email))
              ELSE UserResponse(401, "error", "Invalid login", NoToken)
    ELSE UserResponse(404, "error", "User not found", NoToken)

\* app.post('/login'): bcrypt.compare rejects a password that is not a
\* string, and the handler then does not answer.
postLogin(coll, email, pw) ==
    LET user == findUser(coll, email) IN
    IF user # NoUser
    THEN IF pw = Missing
         THEN NoUserResponse
         ELSE IF compare(pw, user.password)
              THEN UserResponse(200, "accessToken", "accessToken",
                                generateAccessToken(user._id, user.email))
              ELSE UserResponse(401, "error", "Invalid login", NoToken)
    ELSE UserResponse(401, "error", "Invalid login", NoToken)

\* ------------------------------------------------------------ GET /recipes
\* Strings are sequences of characters here, so that split and pattern
\* matching work on what they work on in the code.
TagChars == {"q", "s", ","}

\* Characters of a name or ingredients parameter: letters, the pattern
\* character that matches any character, and the separator.
PatternChars == {"a", "B", ".", ","}

Strings(chars) == UNION { [1..n -> chars] : n \in 0..MaxQueryLen }

\* req.query: name, tags, ingredients; << >> is a parameter that is absent
\* or empty (both falsy). One list parameter ranges over all strings while
\* the other two take a fixed value or none.
Queries ==
    { [name |-> n, tags |-> t, ingredients |-> i] :
        n \in {<< >>, << "a" >>}, t \in Strings(TagChars), i \in {<< >>, << "a" >>} }
    \cup
    { [name |-> n, tags |-> t, ingredients |-> i] :
        n \in {<< >>, << "a" >>}, t \in {<< >>, << "q" >>}, i \in Strings(PatternChars) }

NoQuery == [name |-> << >>, tags |-> << >>, ingredients |-> << >>]

\* Recipe documents a search may run against (same shape as recipeDoc).
CatalogDocs ==
    [name : {<< "a" >>, << "b" >>},
     cuisine : {[_id |-> "c1", name |-> "Thai"]},
     optional : {Optional},
     ingredients : {<< >>, << [name |-> << "A" >>] >>,
                    << [name |-> << "a", "b" >>], [name |-> << "b" >>] >>},
     instructions : {<< "boil" >>},
     tags : {<< >>, << [_id |-> "t1", name |-> << "q" >>] >>,
             << [_id |-> "t1", name |-> << "q" >>], [_id |-> "t2", name |-> << "s" >>] >>}]

\* States of the recipes collection with at most MaxCatalog documents.
Catalogs == UNION { [1..n -> CatalogDocs] : n \in 0..MaxCatalog }

\* String.prototype.split(","): the pieces between commas.
RECURSIVE splitComma(_)
splitComma(str) ==
    IF \A i \in DOMAIN str : str[i] # ","
    THEN << str >>
    ELSE LET i == CHOOSE k \in DOMAIN str :
                      /\ str[k] = ","
                      /\ \A j \in 1..(k - 1) : str[j] # ","
         IN << SubSeq(str, 1, i - 1) >> \o splitComma(SubSeq(str, i + 1, Len(str)))

\* Case folding of the 'i' flag.
lower(c) == IF c = "A" THEN "a" ELSE IF c = "B" THEN "b" ELSE c

\* One pattern character against one character, case-insensitively.
charMatches(p, c) == p = "." \/ lower(p) = lower(c)

\* new RegExp(pattern, 'i') / { $regex: pattern, $options: 'i' } finds a
\* match somewhere in str.
regexTest(pattern, str) ==
    \E k \in 0..(Len(str) - Len(pattern)) :
        \A i \in 1..Len(pattern) : charMatches(pattern[i], str[k + i])

\* The clause a parameter does not add.
NoClause == [on |-> FALSE, exact |-> FALSE, values |-> << >>]

\* critera: the filter GET /recipes builds. The second if (ingredients)
\* assigns the same key again, with the patterns.
critera(q) ==
    LET simple == IF q.ingredients # << >>
                  THEN [on |-> TRUE, exact |-> TRUE, values |-> splitComma(q.ingredients)]
                  ELSE NoClause
        advanced == IF q.ingredients # << >>
                    THEN [on |-> TRUE, exact |-> FALSE, values |-> splitComma(q.ingredients)]
                    ELSE simple
    IN [name |-> IF q.name # << >>
                 THEN [on |-> TRUE, exact |-> FALSE, values |-> << q.name >>]
                 ELSE NoClause,
        tags |-> IF q.tags # << >>
                 THEN [on |-> TRUE, exact |-> TRUE, values |-> splitComma(q.tags)]
                 ELSE NoClause,
        ingredients |-> advanced]

\* A $in that behaves as $all: every listed name must be among the tags.
tagsAll(tags, names) ==
    \A n \in Range(names) : \E i \in DOMAIN tags : tags[i].name = n

\* "tags.name": { $in: names }: some embedded tag has one of the names.
tagsIn(tags, names) == \E i \in DOMAIN tags : tags[i].name \in Range(names)

\* "ingredients.name": { $all: values }: every value is matched by some
\* ingredient name, by equality or as a pattern.
ingredientsAll(ingredients, clause) ==
    \A v \in Range(clause.values) :
        \E i \in DOMAIN ingredients :
            IF clause.exact THEN ingredients[i].name = v
            ELSE regexTest(v, ingredients[i].name)

\* find(critera): whether a document satisfies every clause present.
matches(doc, c) ==
    /\ c.name.on => regexTest(c.name.values[1], doc.name)
    /\ c.tags.on => tagsIn(doc.tags, c.tags.values)
    /\ c.ingredients.on => ingredientsAll(doc.ingredients, c.ingredients)

\* .project({ name, prepTime, instructions, ingredients, tags }).
project(doc) ==
    [name |-> doc.name, prepTime |-> "prepTime" \in doc.optional,
     instructions |-> doc.instructions, ingredients |-> doc.ingredients,
     tags |-> doc.tags]

\* app.get('/recipes'): the recipes sent back, by _id.
getRecipes(store, q) ==
    LET c == critera(q)
        found == { id \in DOMAIN store : matches(store[id], c) }
    IN [id \in found |-> project(store[id])]

\* ----------------------------------------------------------------- connect
\* What connect() returns: the MongoClient itself or a Db made from it, and
\* whether the client had connected by then.
Returned(kind, connected) == [kind |-> kind, connected |-> connected]
NoHandle == Returned("none", FALSE)

Callers == 1..MaxCallers

\* The module-level state of db.js before any call: let client = null.
NoConn ==
    [client |-> "null", constructed |-> 0, connected |-> FALSE,
     pc |-> [p \in Callers |-> "idle"], ret |-> [p \in Callers |-> NoHandle]]

\* connect(uri, dbname) up to its await: a client that exists is returned
\* as it is; else one is constructed and client.connect() awaited.
connectCall(c, p) ==
    IF c.client # "null"
    THEN [c EXCEPT !.pc[p] = "returned",
                   !.ret[p] = Returned("MongoClient", c.connected)]
    ELSE [c EXCEPT !.client = "MongoClient",
                   !.constructed = c.constructed + 1,
                   !.pc[p] = "awaiting"]

\* connect(uri, dbname) after await client.connect(): return client.db(dbname).
connectResume(c, p) ==
    [c EXCEPT !.connected = TRUE,
              !.pc[p] = "returned",
              !.ret[p] = Returned("Db", TRUE)]

\* await client.connect() rejects: connect() throws, client stays assigned.
connectReject(c, p) == [c EXCEPT !.pc[p] = "thrown"]

\* ---------------------------------------------------------------- failures
\* A failure raised while a request is handled: what raised it.
Failure(kind, at) == [kind |-> kind, at |-> at]
NoFailure == Failure("none", "none")

Routes ==
    {"GET /recipes", "POST /recipes", "PUT /recipes/:id", "DELETE /recipes/:id",
     "GET /ai/recipes", "POST /ai/recipes", "POST /users", "POST /login"}

\* The calls of each handler that can throw or reject whatever the users
\* collection holds, in program order.
Awaits(route) ==
    CASE route = "GET /recipes" ->
            << Failure("pattern", "new RegExp"), Failure("database", "recipes.find") >>
      [] route = "POST /recipes" ->
            << Failure("database", "cuisines.findOne"), Failure("database", "tags.find"),
               Failure("database", "recipes.insertOne") >>
      [] route = "PUT /recipes/:id" ->
            << Failure("database", "cuisines.findOne"), Failure("database", "tags.find"),
               Failure("database", "recipes.updateOne") >>
      [] route = "DELETE /recipes/:id" ->
            << Failure("database", "recipes.deleteOne") >>
      [] route = "GET /ai/recipes" ->
            << Failure("database", "cuisines.distinct"), Failure("database", "tags.distinct"),
               Failure("database", "recipes.distinct"),
               Failure("generator", "generateSearchParams"),
               Failure("database", "recipes.find") >>
      [] route = "POST /ai/recipes" ->
            << Failure("database", "cuisines.distinct"), Failure("database", "tags.distinct"),
               Failure("generator", "generateRecipe"),
               Failure("database", "cuisines.findOne"), Failure("database", "tags.find"),
               Failure("database", "recipes.insertOne") >>
      [] route = "POST /users" ->
            << Failure("hashing", "bcrypt.hash"), Failure("database", "users.insertOne") >>
      [] route = "POST /login" ->
            << Failure("database", "users.findOne") >>

\* Whether the handler's body is inside try { } catch { res.status(500) }.
tryCatch(route) ==
    route \in {"POST /recipes", "PUT /recipes/:id", "DELETE /recipes/:id"}

\* The bodies and ids a request to the route may carry.
RouteBodies(route) ==
    IF route \in {"POST /recipes", "PUT /recipes/:id"} THEN Bodies
    ELSE IF route = "POST /ai/recipes" THEN Generated
    ELSE {NoBody}

RouteIds(route) ==
    IF route \in {"PUT /recipes/:id", "DELETE /recipes/:id"} THEN RecipeIds
    ELSE {Malformed}

\* Whether the handler gets as far as its k-th call for this request: the
\* early returns (400, 404) and new ObjectId come first.
reaches(route, k, id, b) ==
    IF route \in {"POST /recipes", "PUT /recipes/:id"}
    THEN /\ ~missingRequired(b)
         /\ (k >= 2) => findOne(Cuisines, b.cuisine) # NoDoc
         /\ (k >= 3) => /\ ~invalidTags(find(Tags, b.tags), b.tags)
                        /\ (route = "PUT /recipes/:id") => id # Malformed
    ELSE IF route = "DELETE /recipes/:id"
    THEN id # Malformed
    ELSE IF route = "POST /ai/recipes"
    THEN (k >= 5) => findOne(Cuisines, b.cuisine) # NoDoc
    ELSE TRUE

\* What the client gets when a handler without try/catch throws: nothing
\* (Express 4 drops the rejected promise) or the framework's own 500 page
\* (Express 5 forwards it to the default error handler).
Unhandled == {NoResponse, Response(500, "html", "Internal Server Error", 0)}

\* The responses a failure in the route can end in.
onFailure(route) ==
    IF tryCatch(route)
    THEN {Response(500, "error", "Internal server error", 0)}
    ELSE Unhandled

\* ------------------------------------------------------------------- state
VARIABLES
    recipes,    \* the recipes collection: ObjectId -> document
    nextId,     \* the next ObjectId the driver generates
    req,        \* the last request: [op, id, body]
    resp,       \* the response the last request received
    before,     \* the recipes collection as the last request found it
    auth,       \* the last GET /protected exchange (see getProtected)
    users,      \* the users collection, in insertion order
    session,    \* the last POST /users or POST /login exchange
    search,     \* the last GET /recipes exchange: [op, query, result]
    failure,    \* what failed while the last request was handled, if anything
    conn        \* db.js: the module-level client and the calls of connect()

vars == << recipes, nextId, req, resp, before, auth, users, session,
           search, failure, conn >>

moreVars == << search, failure, conn >>

recipeVars == << recipes, nextId, req, resp, before >>

Request(op, id, b) == [op |-> op, id |-> id, body |-> b]

\* No GET /protected exchange is in progress.
NoAuth ==
    [header |-> [present |-> FALSE, value |-> << >>], jwt |-> NotVerified,
     tokenData |-> NoClaims, next |-> 0, handlerRuns |-> 0, sent |-> << >>,
     op |-> "none"]

UserRequest(op, email, pw, r) == [op |-> op, email |-> email, password |-> pw, resp |-> r]
NoSession == UserRequest("none", "none", Missing, NoUserResponse)

Search(op, q, result) == [op |-> op, query |-> q, result |-> result]
NoSearch == Search("none", NoQuery, << >>)

Init ==
    /\ recipes = << >>
    /\ nextId = 1
    /\ req = Request("none", Malformed, NoBody)
    /\ resp = NoResponse
    /\ before = << >>
    /\ auth = NoAuth
    /\ users = << >>
    /\ session = NoSession
    /\ search = NoSearch
    /\ failure = NoFailure
    /\ conn = NoConn

\* The server is between requests: the last one has been answered.
Idle == req.op = "none"

\* One request handled to completion, leaving outcome r.
Handle(r, q) ==
    /\ (DOMAIN r.recipes # DOMAIN recipes /\ nextId \in DOMAIN r.recipes)
            => nextId <= MaxRecipes
    /\ recipes' = r.recipes
    /\ nextId' = IF nextId \in DOMAIN r.recipes THEN nextId + 1 ELSE nextId
    /\ req' = q
    /\ resp' = r.resp
    /\ before' = recipes
    /\ failure' = NoFailure
    /\ UNCHANGED << auth, users, session, search, conn >>

PostRecipes ==
    /\ Idle
    /\ \E b \in Bodies :
           Handle(postRecipes(recipes, nextId, b), Request("POST /recipes", Malformed, b))

PutRecipes ==
    /\ Idle
    /\ \E id \in RecipeIds, b \in Bodies :
           Handle(putRecipes(recipes, id, b), Request("PUT /recipes/:id", id, b))

DeleteRecipes ==
    /\ Idle
    /\ \E id \in RecipeIds :
           Handle(deleteRecipes(recipes, id), Request("DELETE /recipes/:id", id, NoBody))

PostAiRecipes ==
    /\ Idle
    /\ \E g \in Generated :
           Handle(postAiRecipes(recipes, nextId, g), Request("POST /ai/recipes", Malformed, g))

\* The exchange is over; the server waits for the next request.
NextRequest ==
    /\ ~Idle
    /\ req' = Request("none", Malformed, NoBody)
    /\ resp' = NoResponse
    /\ before' = recipes
    /\ failure' = NoFailure
    /\ UNCHANGED << recipes, nextId, auth, users, session, search, conn >>

Next == PostRecipes \/ PutRecipes \/ DeleteRecipes \/ PostAiRecipes \/ NextRequest

Spec == Init /\ [][Next]_vars

\* ----------------------------------------------- GET /protected on its own
GetProtected ==
    /\ auth.op = "none"
    /\ \E h \in Headers :
           auth' = getProtected(h)
    /\ UNCHANGED << recipeVars, users, session, moreVars >>

NextProtected ==
    /\ auth.op # "none"
    /\ auth' = NoAuth
    /\ UNCHANGED << recipeVars, users, session, moreVars >>

NextAuth == GetProtected \/ NextProtected

SpecAuth == Init /\ [][NextAuth]_vars

\* ------------------------------------------- POST /users and POST /login
PostUsers ==
    /\ session.op = "none"
    /\ \E email \in Emails, pw \in Passwords \cup {Missing} :
           LET r == postUsers(users, email, pw) IN
           /\ Len(r.users) <= MaxUsers
           /\ users' = r.users
           /\ session' = UserRequest("POST /users", email, pw, r.resp)
    /\ UNCHANGED << recipeVars, auth, moreVars >>

PostLogin ==
    /\ session.op = "none"
    /\ \E email \in Emails, pw \in Passwords \cup {Missing} :
           session' = UserRequest("POST /login", email, pw, postLogin(users, email, pw))
    /\ UNCHANGED << recipeVars, auth, users, moreVars >>

NextSession ==
    /\ session.op # "none"
    /\ session' = NoSession
    /\ UNCHANGED << recipeVars, auth, users, moreVars >>

NextUsers == PostUsers \/ PostLogin \/ NextSession

SpecUsers == Init /\ [][NextUsers]_vars

\* ------------------------------------------------- GET /recipes on its own
\* The recipes collection holds some catalog when the searches start.
InitSearch ==
    /\ recipes \in Catalogs
    /\ nextId = Len(recipes) + 1
    /\ req = Request("none", Malformed, NoBody)
    /\ resp = NoResponse
    /\ before = recipes
    /\ auth = NoAuth
    /\ users = << >>
    /\ session = NoSession
    /\ search = NoSearch
    /\ failure = NoFailure
    /\ conn = NoConn

GetRecipes ==
    /\ search.op = "none"
    /\ \E q \in Queries :
           search' = Search("GET /recipes", q, getRecipes(recipes, q))
    /\ UNCHANGED << recipeVars, auth, users, session, failure, conn >>

NextSearch ==
    /\ search.op # "none"
    /\ search' = NoSearch
    /\ UNCHANGED << recipeVars, auth, users, session, failure, conn >>

NextGet == GetRecipes \/ NextSearch

SpecSearch == InitSearch /\ [][NextGet]_vars

\* ------------------------------------------------- requests during failures
\* A request whose handler gets as far as one of its calls, which throws or
\* rejects: nothing is written, and the route decides what the client sees.
Fails ==
    /\ Idle
    /\ \E route \in Routes :
         \E k \in DOMAIN Awaits(route), id \in RouteIds(route), b \in RouteBodies(route) :
           /\ reaches(route, k, id, b)
           /\ req' = Request(route, id, b)
           /\ failure' = Awaits(route)[k]
           /\ resp' \in onFailure(route)
           /\ before' = recipes
    /\ UNCHANGED << recipes, nextId, auth, users, session, search, conn >>

NextFault == Next \/ Fails

SpecFault == Init /\ [][NextFault]_vars

\* ------------------------------------------------------ connect on its own
ConnectCall ==
    /\ \E p \in Callers :
           /\ conn.pc[p] = "idle"
           /\ conn' = connectCall(conn, p)
    /\ UNCHANGED << recipeVars, auth, users, session, search, failure >>

ConnectResume ==
    /\ \E p \in Callers :
           /\ conn.pc[p] = "awaiting"
           /\ conn' = connectResume(conn, p)
    /\ UNCHANGED << recipeVars, auth, users, session, search, failure >>

ConnectReject ==
    /\ \E p \in Callers :
           /\ conn.pc[p] = "awaiting"
           /\ conn' = connectReject(conn, p)
    /\ UNCHANGED << recipeVars, auth, users, session, search, failure >>

NextConnect == ConnectCall \/ ConnectResume \/ ConnectReject

SpecConnect == Init /\ [][NextConnect]_vars

\* ================================================================== claims
\* Vocabulary of the claims, stated on the collections, not on the handlers.
KnownCuisine(nm) == \E c \in Cuisines : c.name = nm
KnownTag(nm) == \E j \in DOMAIN Tags : Tags[j].name = nm

\* Number of Tag documents whose name is among the requested names.
TagsFound(names) == Cardinality({ j \in DOMAIN Tags : Tags[j].name \in Range(names) })

\* The body passes the three validation steps of create and update.
BodyValid(b) ==
    /\ b.missing = {}
    /\ KnownCuisine(b.cuisine)
    /\ TagsFound(b.tags) = Len(b.tags)

IsPost == req.op = "POST /recipes"
IsPut == req.op = "PUT /recipes/:id"
IsDelete == req.op = "DELETE /recipes/:id"
IsAi == req.op = "POST /ai/recipes"

\* C1: every stored recipe embeds a cuisine whose id and name are those of
\* one Cuisine document, and tags whose id and name are each those of one
\* Tag document, after any sequence of create, update, delete and AI
\* recipe-from-text requests.
C1_EmbeddedReferencesExist ==
    \A id \in DOMAIN recipes :
        /\ \E c \in Cuisines :
               /\ c._id = recipes[id].cuisine._id
               /\ c.name = recipes[id].cuisine.name
        /\ \A i \in DOMAIN recipes[id].tags :
               \E j \in DOMAIN Tags :
                   /\ Tags[j]._id = recipes[id].tags[i]._id
                   /\ Tags[j].name = recipes[id].tags[i].name

\* C1 witness: an update has just rewritten a stored recipe to carry two tags.
C1_Witness ==
    /\ IsPut
    /\ recipes # before
    /\ \E id \in DOMAIN recipes : Len(recipes[id].tags) = 2

\* C2 as stated: a create request whose cuisine name matches no Cuisine
\* document is answered 400 'Invalid cuisine' and writes nothing.
C2_AsStated ==
    (IsPost /\ req.body.cuisine \in CuisineNames /\ ~KnownCuisine(req.body.cuisine))
        => /\ resp = Response(400, "error", "Invalid cuisine", 0)
           /\ recipes = before

\* C2 amended: such a request is answered 400 and writes nothing; the error
\* is 'Invalid cuisine' when all required fields are supplied and
\* 'Missing required fields' otherwise.
C2_UnknownCuisineRejected ==
    (IsPost /\ req.body.cuisine \in CuisineNames /\ ~KnownCuisine(req.body.cuisine))
        => /\ recipes = before
           /\ resp.status = 400
           /\ resp.key = "error"
           /\ resp.text = IF req.body.missing = {} THEN "Invalid cuisine"
                          ELSE "Missing required fields"

\* C2 witness: a complete body naming the unknown cuisine was rejected while
\* the collection held a recipe.
C2_Witness ==
    /\ IsPost
    /\ req.body.missing = {}
    /\ req.body.cuisine = "French"
    /\ resp.text = "Invalid cuisine"
    /\ before # << >>

\* C3: a create request for which fewer Tag documents are found than tag
\* names were requested fails with a validation error and writes nothing
\* ('One or more invalid tags' once the fields and the cuisine have passed);
\* so no request naming a tag absent from the Tag collection creates a recipe.
C3_FewerTagsFoundRejected ==
    /\ (IsPost /\ TagsFound(req.body.tags) < Len(req.body.tags))
           => /\ recipes = before
              /\ resp.status = 400
              /\ (req.body.missing = {} /\ KnownCuisine(req.body.cuisine))
                     => resp = Response(400, "error", "One or more invalid tags", 0)
    /\ (IsPost /\ \E i \in DOMAIN req.body.tags : ~KnownTag(req.body.tags[i]))
           => (recipes = before /\ resp.status # 201)

\* C3 witness: one known and one unknown tag name, rejected at the tag check.
C3_Witness ==
    /\ IsPost
    /\ req.body.missing = {}
    /\ req.body.cuisine = "Thai"
    /\ req.body.tags = << "quick", "ghost" >>
    /\ resp.text = "One or more invalid tags"

\* C4: create and update answer 400 and write nothing when any of name,
\* cuisine, ingredients, instructions, tags is missing, whatever the cuisine,
\* the tags and the id are; a body with all five is never rejected as
\* incomplete, with or without prepTime, cookTime and servings.
C4_RequiredFields ==
    (IsPost \/ IsPut)
        => /\ (req.body.missing # {})
                  => /\ resp = Response(400, "error", "Missing required fields", 0)
                     /\ recipes = before
           /\ (req.body.missing = {}) => resp.text # "Missing required fields"

\* C4 witness: an update of a stored recipe with tags left out was rejected.
C4_Witness ==
    /\ IsPut
    /\ req.id \in DOMAIN before
    /\ req.body.missing = {"tags"}
    /\ KnownCuisine(req.body.cuisine)
    /\ resp.status = 400

\* C5 as stated: an update whose id matches no recipe is answered 404 and
\* leaves the collection as it was.
C5_AsStated ==
    (IsPut /\ req.id \notin DOMAIN before)
        => (resp.status = 404 /\ recipes = before)

\* C5 amended: such an update never creates or modifies a document; it is
\* answered 404 when the body passes validation and the id is well-formed,
\* 400 when the body fails validation, 500 when a valid body comes with a
\* malformed id.
C5_UnmatchedUpdate ==
    (IsPut /\ req.id \notin DOMAIN before)
        => /\ recipes = before
           /\ resp.status = IF ~BodyValid(req.body) THEN 400
                            ELSE IF req.id = Malformed THEN 500
                            ELSE 404
           /\ (resp.status = 404) => resp = Response(404, "error", "Recipe not found", 0)

\* C5 witness: a valid body sent to a well-formed id nobody holds, while
\* another recipe is stored, was answered 404.
C5_Witness ==
    /\ IsPut
    /\ before # << >>
    /\ req.id # Malformed
    /\ req.id \notin DOMAIN before
    /\ resp.status = 404

\* C6 as stated: deleting an id that matches no recipe gets the success
\* response and leaves the collection unchanged.
C6_AsStated ==
    (IsDelete /\ req.id \notin DOMAIN before)
        => /\ resp = Response(200, "message", "Recipe deleted successfully", 0)
           /\ recipes = before

\* C6 amended: a delete with a well-formed id gets the success response
\* whether or not the id matched, and changes nothing when it did not; a
\* malformed id gets 500; and for every id, deleting twice leaves the same
\* collection and the same response as deleting once.
C6_DeleteIdempotent ==
    /\ IsDelete
           => /\ resp = IF req.id = Malformed
                        THEN Response(500, "error", "Internal server error", 0)
                        ELSE Response(200, "message", "Recipe deleted successfully", 0)
              /\ req.id \notin DOMAIN recipes
              /\ (req.id \notin DOMAIN before) => recipes = before
              /\ \A i \in DOMAIN recipes : i \in DOMAIN before /\ recipes[i] = before[i]
    /\ \A id \in RecipeIds :
           LET once == deleteRecipes(recipes, id)
               twice == deleteRecipes(once.recipes, id)
           IN twice = once

\* C6 witness: a well-formed id that matched nothing was deleted from a
\* non-empty collection.
C6_Witness ==
    /\ IsDelete
    /\ before # << >>
    /\ req.id # Malformed
    /\ req.id \notin DOMAIN before
    /\ resp.status = 200

IsProtected == auth.op = "GET /protected"

\* Number of 401 responses the last GET /protected exchange sent.
Rejections == Cardinality({ i \in DOMAIN auth.sent : auth.sent[i].status = 401 })

\* C7: verifyToken ends every request either VERIFIED (claims attached, the
\* next stage invoked exactly once, no 401) or REJECTED (a 401 sent, the next
\* stage never invoked), never both; the next stage runs only when the token
\* handed to jwt.verify is one that verifies; a request without an
\* authorization header is rejected with 'Missing token'.
C7_VerifiedOrRejected ==
    IsProtected =>
        LET verified == /\ auth.tokenData # NoClaims
                        /\ auth.next = 1
                        /\ Rejections = 0
            rejected == /\ Rejections = 1
                        /\ auth.next = 0
                        /\ auth.handlerRuns = 0
                        /\ Len(auth.sent) = 1
        IN /\ verified \/ rejected
           /\ ~(verified /\ rejected)
           /\ (auth.next > 0) => (auth.jwt.called /\ auth.jwt.token = GoodToken)
           /\ (~auth.header.present)
                  => /\ auth.sent = << Response(401, "error", "Missing token", 0) >>
                     /\ auth.next = 0

\* C7 witness: "B g" (scheme, space, good token) was verified and forwarded.
C7_Witness ==
    /\ IsProtected
    /\ auth.header.value = << "B", " ", "g" >>
    /\ auth.next = 1
    /\ auth.sent = << Response(200, "message", "This is a secret message", 0) >>

\* The last segment of a header value: what follows its last space.
LastSegment(str) ==
    LET spaces == { i \in DOMAIN str : str[i] = " " } IN
    IF spaces = {} THEN str
    ELSE LET last == CHOOSE i \in spaces : \A j \in spaces : j <= i
         IN SubSeq(str, last + 1, Len(str))

\* C8: for every header value that is present, the token verifyToken hands
\* to jwt.verify is the last space-delimited segment of the header, however
\* many segments there are.
C8_LastSegmentVerified ==
    (IsProtected /\ auth.header.present /\ auth.header.value # << >>)
        => /\ auth.jwt.called
           /\ auth.jwt.token = LastSegment(auth.header.value)

\* Header values that carry a token that does not verify: the token bare, or
\* after the scheme.
Unverifiable ==
    LET bad == { t \in UNION { [1..n -> Chars \ {" "}] : n \in 1..(MaxHeaderLen - 2) } :
                   t # GoodToken }
    IN bad \cup { << "B", " " >> \o t : t \in bad }

\* C9: a request without an authorization header and a request carrying an
\* expired or otherwise unverifiable token both get exactly one response,
\* with status 401, and the protected handler runs in neither.
C9_SameRejection ==
    (IsProtected /\ (~auth.header.present \/ auth.header.value \in Unverifiable))
        => /\ Len(auth.sent) = 1
           /\ auth.sent[1].status = 401
           /\ auth.handlerRuns = 0
           /\ auth.next = 0

\* C9 witness: "B e" (scheme, space, expired token) was rejected with 401.
C9_Witness ==
    /\ IsProtected
    /\ auth.header.present
    /\ auth.header.value = << "B", " " >> \o ExpiredToken
    /\ auth.sent = << Response(401, "error", "Invalid token", 0) >>

IsLogin == session.op = "POST /login"

\* Some user document carries this email.
Registered(email) == \E i \in DOMAIN users : users[i].email = email

\* The password hashes to what the first user document with this email stores.
PasswordMatches(email, pw) ==
    /\ Registered(email)
    /\ LET first == CHOOSE i \in DOMAIN users :
                        /\ users[i].email = email
                        /\ \A j \in 1..(i - 1) : users[j].email # email
       IN users[first].password = hash(pw)

\* C10: a login with a registered email and a wrong password and a login
\* with an email no user has get the same response, 401 {error: 'Invalid
\* login'}; an access token is sent only when the email exists and the
\* password matches the stored hash.
C10_LoginIndistinguishable ==
    IsLogin =>
        /\ (session.password \in Passwords
            /\ ~PasswordMatches(session.email, session.password))
               => session.resp = UserResponse(401, "error", "Invalid login", NoToken)
        /\ (session.resp.accessToken # NoToken \/ session.resp.status = 200)
               => /\ Registered(session.email)
                  /\ session.password \in Passwords
                  /\ PasswordMatches(session.email, session.password)

\* C10 witness: a registered email with a wrong password was answered
\* 'Invalid login' while another email is not registered.
C10_Witness ==
    /\ IsLogin
    /\ Registered(session.email)
    /\ session.password \in Passwords
    /\ ~PasswordMatches(session.email, session.password)
    /\ \E e \in Emails : ~Registered(e)
    /\ session.resp.status = 401

\* C13: an AI recipe-from-text request whose generated cuisine name matches
\* no Cuisine document is answered 404 and leaves the recipes collection
\* unchanged; whatever this operation writes is one new document whose
\* cuisine is a document of the Cuisine collection.
C13_GeneratedCuisineResolved ==
    IsAi =>
        /\ (~KnownCuisine(req.body.cuisine))
               => /\ resp.status = 404
                  /\ resp.key = "error"
                  /\ recipes = before
        /\ (recipes # before)
               => /\ KnownCuisine(req.body.cuisine)
                  /\ \E id \in DOMAIN recipes :
                         /\ id \notin DOMAIN before
                         /\ DOMAIN recipes = DOMAIN before \cup {id}
                         /\ \A i \in DOMAIN before : recipes[i] = before[i]
                         /\ recipes[id].cuisine \in Cuisines
                         /\ recipes[id].cuisine.name = req.body.cuisine

\* C13 witness: the generator named the unknown cuisine and got 404.
C13_Witness ==
    /\ IsAi
    /\ req.body.cuisine = "French"
    /\ req.body.tags # << >>
    /\ resp.status = 404

\* C16: no two user documents carry the same email.
C16_UniqueEmails ==
    \A i \in DOMAIN users : \A j \in DOMAIN users :
        (users[i].email = users[j].email) => (i = j)

\* All requested tag names exist in the Tag collection.
AllTagsKnown(names) == \A i \in DOMAIN names : KnownTag(names[i])

\* C17: a create request with all required fields, a known cuisine and tag
\* names that all exist (in any order, repeated or not) is answered 201 and
\* adds exactly one recipe; 'One or more invalid tags' is answered if and only
\* if some requested tag name is absent from the Tag collection.
C17_KnownTagsAccepted ==
    (IsPost /\ req.body.missing = {} /\ KnownCuisine(req.body.cuisine))
        => /\ AllTagsKnown(req.body.tags)
                  => /\ resp.status = 201
                     /\ Cardinality(DOMAIN recipes) = Cardinality(DOMAIN before) + 1
           /\ (resp.text = "One or more invalid tags")
                  <=> ~AllTagsKnown(req.body.tags)

\* The names a comma-separated parameter lists: its maximal comma-free
\* stretches (possibly empty ones).
Pieces(str) ==
    { SubSeq(str, ab[1], ab[2]) : ab \in
        { ab \in (1..(Len(str) + 1)) \X (0..Len(str)) :
            /\ ab[1] <= ab[2] + 1
            /\ \A i \in ab[1]..ab[2] : str[i] # ","
            /\ ab[1] = 1 \/ str[ab[1] - 1] = ","
            /\ ab[2] = Len(str) \/ str[ab[2] + 1] = "," } }

IsSearch == search.op = "GET /recipes"

\* The document has an embedded tag named in the comma-separated parameter.
HasNamedTag(doc, str) == \E i \in DOMAIN doc.tags : doc.tags[i].name \in Pieces(str)

\* The document satisfies the filters of the query other than tags.
OtherFilters(doc, q) == matches(doc, critera([q EXCEPT !.tags = << >>]))

\* C11: when GET /recipes carries a non-empty tags parameter, the recipes
\* returned are exactly the stored recipes that have at least one embedded
\* tag named in the comma-separated list and satisfy the other filters
\* supplied, and each is returned with those tags.
C11_TagsAnyOf ==
    (IsSearch /\ search.query.tags # << >>) =>
        /\ DOMAIN search.result =
              { id \in DOMAIN recipes :
                  /\ HasNamedTag(recipes[id], search.query.tags)
                  /\ OtherFilters(recipes[id], search.query) }
        /\ \A id \in DOMAIN search.result :
              /\ search.result[id].tags = recipes[id].tags
              /\ \E i \in DOMAIN search.result[id].tags :
                     search.result[id].tags[i].name \in Pieces(search.query.tags)

\* A search for two tag names returns a recipe that carries only one of them.
C11_Witness ==
    /\ IsSearch
    /\ search.query.tags = << "s", ",", "q" >>
    /\ 1 \in DOMAIN search.result
    /\ Len(recipes[1].tags) = 1

\* The name contains the token as a substring, letter case ignored.
ContainsIgnoreCase(nm, token) ==
    \E k \in 0..(Len(nm) - Len(token)) :
        \A i \in 1..Len(token) : lower(nm[k + i]) = lower(token[i])

\* C12: when GET /recipes carries a non-empty ingredients parameter, every
\* recipe returned has, for each comma-separated token, an ingredient whose
\* name contains that token as a case-insensitive substring.
C12_EveryTokenContained ==
    (IsSearch /\ search.query.ingredients # << >>) =>
        \A id \in DOMAIN search.result :
            \A token \in Pieces(search.query.ingredients) :
                \E i \in DOMAIN recipes[id].ingredients :
                    ContainsIgnoreCase(recipes[id].ingredients[i].name, token)

\* C14: whenever something fails while a request is handled, the request is
\* answered with status 500 and the body { error: 'Internal server error' }.
C14_FailuresAnswered500 ==
    (failure # NoFailure) => resp = Response(500, "error", "Internal server error", 0)

\* C15: the client is constructed at most once, and all calls of connect that
\* have returned hold the same handle, a database handle.
C15_OneClientSameDb ==
    /\ conn.constructed <= 1
    /\ \A p \in Callers : \A q \in Callers :
          (conn.pc[p] = "returned" /\ conn.pc[q] = "returned") =>
              /\ conn.ret[p] = conn.ret[q]
              /\ conn.ret[p].kind = "Db"
====
